---- MODULE Spec2Model ----
(***************************************************************************)
(* A model of delfin/drivers/fake_storage/__init__.py: the module-level    *)
(* range variables, the range parser get_range_val, the latency decorator  *)
(* wait_random, and the FakeStorageDriver operations.                      *)
(*                                                                         *)
(* Conventions.                                                            *)
(*  - A Python str is a sequence of one-character strings, so that split,  *)
(*    int() and float() are computed character by character.  A character  *)
(*    beyond printable ASCII is written by its code point, "U+0663" for    *)
(*    ARABIC-INDIC DIGIT THREE and "U+000B" for the vertical tab.          *)
(*  - The outcome of a Python call is a record [exc, val]: exc = "none"    *)
(*    and val the returned value, or exc the name of the raised exception. *)
(*  - A Python float is an IEEE 754 binary64, computed bit for bit: parsed *)
(*    as float() parses, with every operation rounded to 53 bits.          *)
(*  - A Python int is an integer of the model, for the values below 2^31   *)
(*    that settings of up to 9 digits give.                                *)
(*  - Every call of the random module and of the clock is an input of the  *)
(*    action that makes it, drawn from a small sample set.                 *)
(*  - Constructor runs and API calls are made by threads.  A thread keeps  *)
(*    the interpreter between two calls it makes, so the two globals of a  *)
(*    tuple assignment are assigned, and the two arguments of a call are   *)
(*    read, in one step; it can lose it at every call, and does at         *)
(*    time.sleep.  An action is one thread's code up to its next read or   *)
(*    write of the globals, or up to its sleep.                            *)
(***************************************************************************)
EXTENDS Integers, Sequences, FiniteSets, TLC

VARIABLES
    MIN_WAIT, MAX_WAIT,        \* module globals, line 50
    MIN_POOL, MAX_POOL,        \* line 51
    MIN_VOLUME, MAX_VOLUME,    \* line 52
    PAGE_LIMIT,                \* line 54
    CONF,                      \* CONF.fake_driver, the settings in force
    drivers,                   \* the FakeStorageDriver instances whose constructor returned
    constructions,             \* how many times the constructor was called
    ctor,                      \* for each storage id, the constructor run made last for it
    call,                      \* the API call in flight, or made last: its locals
    result                     \* the outcome of that call

vars == <<MIN_WAIT, MAX_WAIT, MIN_POOL, MAX_POOL, MIN_VOLUME, MAX_VOLUME,
          PAGE_LIMIT, CONF, drivers, constructions, ctor, call, result>>

globals == <<MIN_WAIT, MAX_WAIT, MIN_POOL, MAX_POOL, MIN_VOLUME, MAX_VOLUME,
             PAGE_LIMIT>>

-----------------------------------------------------------------------------
(* Python values *)

Return(v) == [exc |-> "none", val |-> v]

Raise(e) == [exc |-> e, val |-> <<>>]

Pending == [exc |-> "pending", val |-> <<>>]

Max(a, b) == IF a >= b THEN a ELSE b

Min(a, b) == IF a <= b THEN a ELSE b

Abs(n) == IF n < 0 THEN -n ELSE n

-----------------------------------------------------------------------------
(* Natural numbers of any size: the digits of a number in base 2^15, the    *)
(* lowest first and the highest not 0; <<>> is 0.  They carry the 53-bit    *)
(* significands of the floats and the digit strings float() reads.          *)

Base == 32768

LimbBits == 15

RECURSIVE Pow2(_)
Pow2(k) == IF k = 0 THEN 1 ELSE 2 * Pow2(k - 1)

\* The operations on the limbs lo..hi split the range in two, so that their
\* depth grows with the logarithm of the length.

SetMax(S) == CHOOSE x \in S : \A y \in S : y <= x

SetMin(S) == CHOOSE x \in S : \A y \in S : x <= y

\* a without the zero limbs at its upper end.
BigTrim(a) ==
    LET nz == {i \in 1..Len(a) : a[i] # 0}
    IN  IF nz = {} THEN <<>> ELSE SubSeq(a, 1, SetMax(nz))

RECURSIVE BigOfInt(_)
BigOfInt(n) == IF n = 0 THEN <<>> ELSE <<n % Base>> \o BigOfInt(n \div Base)

Limb(a, i) == IF i <= Len(a) THEN a[i] ELSE 0

Limbs(l, c) == [limbs |-> l, carry |-> c]

\* The limbs lo..hi of a + b, given the carry into limb lo, and the carry out.
RECURSIVE BigAddSeg(_, _, _, _, _)
BigAddSeg(a, b, lo, hi, carry) ==
    IF lo > hi THEN Limbs(<<>>, carry)
    ELSE IF lo = hi
    THEN Limbs(<<(Limb(a, lo) + Limb(b, lo) + carry) % Base>>,
               (Limb(a, lo) + Limb(b, lo) + carry) \div Base)
    ELSE LET mid == (lo + hi) \div 2
             lower == BigAddSeg(a, b, lo, mid, carry)
             upper == BigAddSeg(a, b, mid + 1, hi, lower.carry)
         IN  Limbs(lower.limbs \o upper.limbs, upper.carry)

WithCarry(r) == IF r.carry = 0 THEN r.limbs ELSE Append(r.limbs, r.carry)

BigAdd(a, b) == WithCarry(BigAddSeg(a, b, 1, Max(Len(a), Len(b)), 0))

\* The limbs lo..hi of a - b for a >= b, given the borrow from limb lo.
RECURSIVE BigSubSeg(_, _, _, _, _)
BigSubSeg(a, b, lo, hi, borrow) ==
    IF lo > hi THEN Limbs(<<>>, borrow)
    ELSE IF lo = hi
    THEN Limbs(<<(a[lo] - Limb(b, lo) - borrow + Base) % Base>>,
               IF a[lo] - Limb(b, lo) - borrow < 0 THEN 1 ELSE 0)
    ELSE LET mid == (lo + hi) \div 2
             lower == BigSubSeg(a, b, lo, mid, borrow)
             upper == BigSubSeg(a, b, mid + 1, hi, lower.carry)
         IN  Limbs(lower.limbs \o upper.limbs, upper.carry)

BigSub(a, b) == BigTrim(BigSubSeg(a, b, 1, Len(a), 0).limbs)

\* -1, 0 or 1 as a is below, equal to or above b.
BigCmp(a, b) ==
    IF Len(a) < Len(b) THEN -1
    ELSE IF Len(a) > Len(b) THEN 1
    ELSE LET differ == {i \in 1..Len(a) : a[i] # b[i]}
         IN  IF differ = {} THEN 0
             ELSE IF a[SetMax(differ)] < b[SetMax(differ)] THEN -1 ELSE 1

\* The limbs lo..hi of a * k for 0 < k < Base, given the carry into limb lo.
RECURSIVE BigMulSmallSeg(_, _, _, _, _)
BigMulSmallSeg(a, k, lo, hi, carry) ==
    IF lo > hi THEN Limbs(<<>>, carry)
    ELSE IF lo = hi
    THEN Limbs(<<(a[lo] * k + carry) % Base>>, (a[lo] * k + carry) \div Base)
    ELSE LET mid == (lo + hi) \div 2
             lower == BigMulSmallSeg(a, k, lo, mid, carry)
             upper == BigMulSmallSeg(a, k, mid + 1, hi, lower.carry)
         IN  Limbs(lower.limbs \o upper.limbs, upper.carry)

BigMulSmall(a, k) ==
    IF k = 0 THEN <<>> ELSE WithCarry(BigMulSmallSeg(a, k, 1, Len(a), 0))

\* a * Base^n
BigShiftLimbs(a, n) == IF a = <<>> THEN <<>> ELSE [i \in 1..n |-> 0] \o a

\* a times the limbs lo..hi of b, each at its place.
RECURSIVE BigMulSeg(_, _, _, _)
BigMulSeg(a, b, lo, hi) ==
    IF lo > hi THEN <<>>
    ELSE IF lo = hi THEN BigShiftLimbs(BigMulSmall(a, b[lo]), lo - 1)
    ELSE BigAdd(BigMulSeg(a, b, lo, (lo + hi) \div 2),
                BigMulSeg(a, b, ((lo + hi) \div 2) + 1, hi))

BigMul(a, b) == BigMulSeg(a, b, 1, Len(b))

Reverse(s) == [i \in 1..Len(s) |-> s[Len(s) + 1 - i]]

\* The quotient of the limbs hi..lo of a by k, 0 < k < Base, the highest limb
\* first, given the remainder r of the limbs above hi; and the remainder.
RECURSIVE BigDivSmallSeg(_, _, _, _, _)
BigDivSmallSeg(a, k, lo, hi, r) ==
    IF lo > hi THEN Limbs(<<>>, r)
    ELSE IF lo = hi
    THEN Limbs(<<(r * Base + a[lo]) \div k>>, (r * Base + a[lo]) % k)
    ELSE LET mid == (lo + hi) \div 2
             upper == BigDivSmallSeg(a, k, mid + 1, hi, r)
             lower == BigDivSmallSeg(a, k, lo, mid, upper.carry)
         IN  Limbs(upper.limbs \o lower.limbs, lower.carry)

BigDivSmall(a, k) ==
    LET d == BigDivSmallSeg(a, k, 1, Len(a), 0)
    IN  [q |-> BigTrim(Reverse(d.limbs)), r |-> d.carry]

RECURSIVE SmallBitLen(_)
SmallBitLen(n) == IF n = 0 THEN 0 ELSE 1 + SmallBitLen(n \div 2)

BitLen(a) ==
    IF a = <<>> THEN 0 ELSE LimbBits * (Len(a) - 1) + SmallBitLen(a[Len(a)])

\* a * 2^n
BigShl(a, n) ==
    BigShiftLimbs(BigMulSmall(a, Pow2(n % LimbBits)), n \div LimbBits)

\* floor(a / 2^n)
BigShr(a, n) ==
    BigDivSmall(SubSeq(a, (n \div LimbBits) + 1, Len(a)), Pow2(n % LimbBits)).q

\* a mod 2^n = 0
BigLowZero(a, n) ==
    /\ \A i \in 1..Min(n \div LimbBits, Len(a)) : a[i] = 0
    /\ Limb(a, (n \div LimbBits) + 1) % Pow2(n % LimbBits) = 0

\* Bit n of a, bit 0 the lowest.
BigBit(a, n) == (Limb(a, (n \div LimbBits) + 1) \div Pow2(n % LimbBits)) % 2

RECURSIVE SmallTrailingZeros(_)
SmallTrailingZeros(n) == IF n % 2 = 1 THEN 0 ELSE 1 + SmallTrailingZeros(n \div 2)

\* The number of zero bits below the lowest one bit of a # 0.
BigTrailingZeros(a) ==
    LET i == SetMin({j \in 1..Len(a) : a[j] # 0})
    IN  LimbBits * (i - 1) + SmallTrailingZeros(a[i])

-----------------------------------------------------------------------------
(* float: an IEEE 754 binary64.  A finite float is s * m * 2^e with the     *)
(* sign s in {1, -1}, m a natural number that is odd (or 0 with e = 0);     *)
(* m / 2^-e is what as_integer_ratio() returns.  The results of the         *)
(* operations are rounded to 53 bits, ties to even, as the hardware does.   *)

Finite(s, m, e) == [k |-> "fin", s |-> s, m |-> m, e |-> e]

Inf(s) == [k |-> "inf", s |-> s, m |-> <<>>, e |-> 0]

NaN == [k |-> "nan", s |-> 1, m |-> <<>>, e |-> 0]

Zero(s) == Finite(s, <<>>, 0)

MantissaBits == 53

MinExp == -1074

MaxBits == 1024

\* s * m * 2^e with the zero bits at the lower end of m moved into e.
Normal(s, m, e) ==
    IF m = <<>> THEN Zero(s)
    ELSE LET tz == BigTrailingZeros(m) IN Finite(s, BigShr(m, tz), e + tz)

\* q * 2^t after rounding, q of at most 53 bits when t > MinExp: infinite
\* once it reaches 2^1024.
Rounded(s, q, t) == IF BitLen(q) + t > MaxBits THEN Inf(s) ELSE Normal(s, q, t)

\* The float nearest to s * (q + f) * 2^e, where 0 <= f < 1 and f > 0 iff
\* sticky; with sticky, q has more than 53 bits or e is below MinExp.
Round(s, q, e, sticky) ==
    LET t == Max(e + BitLen(q) - MantissaBits, MinExp)
        sh == t - e
    IN  IF sh <= 0 THEN Rounded(s, q, e)
        ELSE LET kept == BigShr(q, sh)
                 half == BigBit(q, sh - 1) = 1
                 below == sticky \/ ~BigLowZero(q, sh - 1)
                 up == half /\ (below \/ BigBit(kept, 0) = 1)
             IN  Rounded(s, IF up THEN BigAdd(kept, <<1>>) ELSE kept, t)

\* float(n) of an int.
float_of_int(n) == Round(IF n < 0 THEN -1 ELSE 1, BigOfInt(Abs(n)), 0, FALSE)

float_neg(x) == IF x.k = "nan" THEN x ELSE [x EXCEPT !.s = -x.s]

\* x + y of two finite floats: the exact sum at the lower exponent, rounded.
finite_add(x, y) ==
    LET e == Min(x.e, y.e)
        a == BigShl(x.m, x.e - e)
        b == BigShl(y.m, y.e - e)
        c == BigCmp(a, b)
    IN  IF x.s = y.s THEN Round(x.s, BigAdd(a, b), e, FALSE)
        ELSE IF c = 0 THEN Zero(1)
        ELSE IF c > 0 THEN Round(x.s, BigSub(a, b), e, FALSE)
        ELSE Round(y.s, BigSub(b, a), e, FALSE)

\* x + y
float_add(x, y) ==
    IF x.k = "nan" \/ y.k = "nan" THEN NaN
    ELSE IF x.k = "inf" /\ y.k = "inf" THEN (IF x.s = y.s THEN x ELSE NaN)
    ELSE IF x.k = "inf" THEN x
    ELSE IF y.k = "inf" THEN y
    ELSE IF x.m = <<>> /\ y.m = <<>> THEN Zero(IF x.s = -1 /\ y.s = -1 THEN -1 ELSE 1)
    ELSE IF x.m = <<>> THEN y
    ELSE IF y.m = <<>> THEN x
    ELSE finite_add(x, y)

\* x - y
float_sub(x, y) == float_add(x, float_neg(y))

\* x * y
float_mul(x, y) ==
    IF x.k = "nan" \/ y.k = "nan" THEN NaN
    ELSE IF x.k = "inf" \/ y.k = "inf"
    THEN (IF (x.k = "fin" /\ x.m = <<>>) \/ (y.k = "fin" /\ y.m = <<>>)
          THEN NaN ELSE Inf(x.s * y.s))
    ELSE Round(x.s * y.s, BigMul(x.m, y.m), x.e + y.e, FALSE)

DivGuard == 70

\* x / k for a float x and an int k, 0 < |k| < 2^15 (the source divides by
\* 100 and by PAGE_LIMIT).  The quotient is taken with DivGuard more bits
\* than x has, the dropped remainder deciding the ties.
float_truediv(x, k) ==
    IF x.k = "nan" THEN x
    ELSE IF x.k = "inf" THEN Inf(IF k < 0 THEN -x.s ELSE x.s)
    ELSE LET d == BigDivSmall(BigShl(x.m, DivGuard), Abs(k))
         IN  Round(IF k < 0 THEN -x.s ELSE x.s, d.q, x.e - DivGuard, d.r # 0)

\* The int a limb sequence stands for, below 2^31.
BigToInt(a) ==
    IF a = <<>> THEN 0
    ELSE IF Len(a) = 1 THEN a[1]
    ELSE IF Len(a) = 2 THEN a[1] + Base * a[2]
    ELSE a[1] + Base * (a[2] + Base * a[3])

\* int(x) of a float: the fraction is dropped; infinities and nan raise.
int_of_float(x) ==
    IF x.k = "inf" THEN Raise("OverflowError")
    ELSE IF x.k = "nan" THEN Raise("ValueError")
    ELSE Return(x.s * BigToInt(IF x.e >= 0 THEN BigShl(x.m, x.e) ELSE BigShr(x.m, -x.e)))

\* a / b of two ints, a below 2^53 and 0 < |b| < 2^15: both convert to
\* float exactly and the quotient is rounded once.
int_truediv(a, b) == float_truediv(float_of_int(a), b)

\* math.ceil(x) of a finite float below 2^31.
math_ceil(x) ==
    IF x.e >= 0 THEN x.s * BigToInt(BigShl(x.m, x.e))
    ELSE IF x.s = 1 THEN BigToInt(BigShr(x.m, -x.e)) + 1
    ELSE -BigToInt(BigShr(x.m, -x.e))
-----------------------------------------------------------------------------
(* str, int(), float() *)

DigitChars == <<"0", "1", "2", "3", "4", "5", "6", "7", "8", "9">>

\* The decimal digits beyond ASCII (category Nd, Unicode 14): the digits 0
\* to 9 of one script per row.
UnicodeDigits ==
    <<
     <<"U+0660", "U+0661", "U+0662", "U+0663", "U+0664", "U+0665", "U+0666", "U+0667", "U+0668", "U+0669">>,
     <<"U+06F0", "U+06F1", "U+06F2", "U+06F3", "U+06F4", "U+06F5", "U+06F6", "U+06F7", "U+06F8", "U+06F9">>,
     <<"U+07C0", "U+07C1", "U+07C2", "U+07C3", "U+07C4", "U+07C5", "U+07C6", "U+07C7", "U+07C8", "U+07C9">>,
     <<"U+0966", "U+0967", "U+0968", "U+0969", "U+096A", "U+096B", "U+096C", "U+096D", "U+096E", "U+096F">>,
     <<"U+09E6", "U+09E7", "U+09E8", "U+09E9", "U+09EA", "U+09EB", "U+09EC", "U+09ED", "U+09EE", "U+09EF">>,
     <<"U+0A66", "U+0A67", "U+0A68", "U+0A69", "U+0A6A", "U+0A6B", "U+0A6C", "U+0A6D", "U+0A6E", "U+0A6F">>,
     <<"U+0AE6", "U+0AE7", "U+0AE8", "U+0AE9", "U+0AEA", "U+0AEB", "U+0AEC", "U+0AED", "U+0AEE", "U+0AEF">>,
     <<"U+0B66", "U+0B67", "U+0B68", "U+0B69", "U+0B6A", "U+0B6B", "U+0B6C", "U+0B6D", "U+0B6E", "U+0B6F">>,
     <<"U+0BE6", "U+0BE7", "U+0BE8", "U+0BE9", "U+0BEA", "U+0BEB", "U+0BEC", "U+0BED", "U+0BEE", "U+0BEF">>,
     <<"U+0C66", "U+0C67", "U+0C68", "U+0C69", "U+0C6A", "U+0C6B", "U+0C6C", "U+0C6D", "U+0C6E", "U+0C6F">>,
     <<"U+0CE6", "U+0CE7", "U+0CE8", "U+0CE9", "U+0CEA", "U+0CEB", "U+0CEC", "U+0CED", "U+0CEE", "U+0CEF">>,
     <<"U+0D66", "U+0D67", "U+0D68", "U+0D69", "U+0D6A", "U+0D6B", "U+0D6C", "U+0D6D", "U+0D6E", "U+0D6F">>,
     <<"U+0DE6", "U+0DE7", "U+0DE8", "U+0DE9", "U+0DEA", "U+0DEB", "U+0DEC", "U+0DED", "U+0DEE", "U+0DEF">>,
     <<"U+0E50", "U+0E51", "U+0E52", "U+0E53", "U+0E54", "U+0E55", "U+0E56", "U+0E57", "U+0E58", "U+0E59">>,
     <<"U+0ED0", "U+0ED1", "U+0ED2", "U+0ED3", "U+0ED4", "U+0ED5", "U+0ED6", "U+0ED7", "U+0ED8", "U+0ED9">>,
     <<"U+0F20", "U+0F21", "U+0F22", "U+0F23", "U+0F24", "U+0F25", "U+0F26", "U+0F27", "U+0F28", "U+0F29">>,
     <<"U+1040", "U+1041", "U+1042", "U+1043", "U+1044", "U+1045", "U+1046", "U+1047", "U+1048", "U+1049">>,
     <<"U+1090", "U+1091", "U+1092", "U+1093", "U+1094", "U+1095", "U+1096", "U+1097", "U+1098", "U+1099">>,
     <<"U+17E0", "U+17E1", "U+17E2", "U+17E3", "U+17E4", "U+17E5", "U+17E6", "U+17E7", "U+17E8", "U+17E9">>,
     <<"U+1810", "U+1811", "U+1812", "U+1813", "U+1814", "U+1815", "U+1816", "U+1817", "U+1818", "U+1819">>,
     <<"U+1946", "U+1947", "U+1948", "U+1949", "U+194A", "U+194B", "U+194C", "U+194D", "U+194E", "U+194F">>,
     <<"U+19D0", "U+19D1", "U+19D2", "U+19D3", "U+19D4", "U+19D5", "U+19D6", "U+19D7", "U+19D8", "U+19D9">>,
     <<"U+1A80", "U+1A81", "U+1A82", "U+1A83", "U+1A84", "U+1A85", "U+1A86", "U+1A87", "U+1A88", "U+1A89">>,
     <<"U+1A90", "U+1A91", "U+1A92", "U+1A93", "U+1A94", "U+1A95", "U+1A96", "U+1A97", "U+1A98", "U+1A99">>,
     <<"U+1B50", "U+1B51", "U+1B52", "U+1B53", "U+1B54", "U+1B55", "U+1B56", "U+1B57", "U+1B58", "U+1B59">>,
     <<"U+1BB0", "U+1BB1", "U+1BB2", "U+1BB3", "U+1BB4", "U+1BB5", "U+1BB6", "U+1BB7", "U+1BB8", "U+1BB9">>,
     <<"U+1C40", "U+1C41", "U+1C42", "U+1C43", "U+1C44", "U+1C45", "U+1C46", "U+1C47", "U+1C48", "U+1C49">>,
     <<"U+1C50", "U+1C51", "U+1C52", "U+1C53", "U+1C54", "U+1C55", "U+1C56", "U+1C57", "U+1C58", "U+1C59">>,
     <<"U+A620", "U+A621", "U+A622", "U+A623", "U+A624", "U+A625", "U+A626", "U+A627", "U+A628", "U+A629">>,
     <<"U+A8D0", "U+A8D1", "U+A8D2", "U+A8D3", "U+A8D4", "U+A8D5", "U+A8D6", "U+A8D7", "U+A8D8", "U+A8D9">>,
     <<"U+A900", "U+A901", "U+A902", "U+A903", "U+A904", "U+A905", "U+A906", "U+A907", "U+A908", "U+A909">>,
     <<"U+A9D0", "U+A9D1", "U+A9D2", "U+A9D3", "U+A9D4", "U+A9D5", "U+A9D6", "U+A9D7", "U+A9D8", "U+A9D9">>,
     <<"U+A9F0", "U+A9F1", "U+A9F2", "U+A9F3", "U+A9F4", "U+A9F5", "U+A9F6", "U+A9F7", "U+A9F8", "U+A9F9">>,
     <<"U+AA50", "U+AA51", "U+AA52", "U+AA53", "U+AA54", "U+AA55", "U+AA56", "U+AA57", "U+AA58", "U+AA59">>,
     <<"U+ABF0", "U+ABF1", "U+ABF2", "U+ABF3", "U+ABF4", "U+ABF5", "U+ABF6", "U+ABF7", "U+ABF8", "U+ABF9">>,
     <<"U+FF10", "U+FF11", "U+FF12", "U+FF13", "U+FF14", "U+FF15", "U+FF16", "U+FF17", "U+FF18", "U+FF19">>,
     <<"U+104A0", "U+104A1", "U+104A2", "U+104A3", "U+104A4", "U+104A5", "U+104A6", "U+104A7", "U+104A8", "U+104A9">>,
     <<"U+10D30", "U+10D31", "U+10D32", "U+10D33", "U+10D34", "U+10D35", "U+10D36", "U+10D37", "U+10D38", "U+10D39">>,
     <<"U+11066", "U+11067", "U+11068", "U+11069", "U+1106A", "U+1106B", "U+1106C", "U+1106D", "U+1106E", "U+1106F">>,
     <<"U+110F0", "U+110F1", "U+110F2", "U+110F3", "U+110F4", "U+110F5", "U+110F6", "U+110F7", "U+110F8", "U+110F9">>,
     <<"U+11136", "U+11137", "U+11138", "U+11139", "U+1113A", "U+1113B", "U+1113C", "U+1113D", "U+1113E", "U+1113F">>,
     <<"U+111D0", "U+111D1", "U+111D2", "U+111D3", "U+111D4", "U+111D5", "U+111D6", "U+111D7", "U+111D8", "U+111D9">>,
     <<"U+112F0", "U+112F1", "U+112F2", "U+112F3", "U+112F4", "U+112F5", "U+112F6", "U+112F7", "U+112F8", "U+112F9">>,
     <<"U+11450", "U+11451", "U+11452", "U+11453", "U+11454", "U+11455", "U+11456", "U+11457", "U+11458", "U+11459">>,
     <<"U+114D0", "U+114D1", "U+114D2", "U+114D3", "U+114D4", "U+114D5", "U+114D6", "U+114D7", "U+114D8", "U+114D9">>,
     <<"U+11650", "U+11651", "U+11652", "U+11653", "U+11654", "U+11655", "U+11656", "U+11657", "U+11658", "U+11659">>,
     <<"U+116C0", "U+116C1", "U+116C2", "U+116C3", "U+116C4", "U+116C5", "U+116C6", "U+116C7", "U+116C8", "U+116C9">>,
     <<"U+11730", "U+11731", "U+11732", "U+11733", "U+11734", "U+11735", "U+11736", "U+11737", "U+11738", "U+11739">>,
     <<"U+118E0", "U+118E1", "U+118E2", "U+118E3", "U+118E4", "U+118E5", "U+118E6", "U+118E7", "U+118E8", "U+118E9">>,
     <<"U+11950", "U+11951", "U+11952", "U+11953", "U+11954", "U+11955", "U+11956", "U+11957", "U+11958", "U+11959">>,
     <<"U+11C50", "U+11C51", "U+11C52", "U+11C53", "U+11C54", "U+11C55", "U+11C56", "U+11C57", "U+11C58", "U+11C59">>,
     <<"U+11D50", "U+11D51", "U+11D52", "U+11D53", "U+11D54", "U+11D55", "U+11D56", "U+11D57", "U+11D58", "U+11D59">>,
     <<"U+11DA0", "U+11DA1", "U+11DA2", "U+11DA3", "U+11DA4", "U+11DA5", "U+11DA6", "U+11DA7", "U+11DA8", "U+11DA9">>,
     <<"U+16A60", "U+16A61", "U+16A62", "U+16A63", "U+16A64", "U+16A65", "U+16A66", "U+16A67", "U+16A68", "U+16A69">>,
     <<"U+16AC0", "U+16AC1", "U+16AC2", "U+16AC3", "U+16AC4", "U+16AC5", "U+16AC6", "U+16AC7", "U+16AC8", "U+16AC9">>,
     <<"U+16B50", "U+16B51", "U+16B52", "U+16B53", "U+16B54", "U+16B55", "U+16B56", "U+16B57", "U+16B58", "U+16B59">>,
     <<"U+1D7CE", "U+1D7CF", "U+1D7D0", "U+1D7D1", "U+1D7D2", "U+1D7D3", "U+1D7D4", "U+1D7D5", "U+1D7D6", "U+1D7D7">>,
     <<"U+1D7D8", "U+1D7D9", "U+1D7DA", "U+1D7DB", "U+1D7DC", "U+1D7DD", "U+1D7DE", "U+1D7DF", "U+1D7E0", "U+1D7E1">>,
     <<"U+1D7E2", "U+1D7E3", "U+1D7E4", "U+1D7E5", "U+1D7E6", "U+1D7E7", "U+1D7E8", "U+1D7E9", "U+1D7EA", "U+1D7EB">>,
     <<"U+1D7EC", "U+1D7ED", "U+1D7EE", "U+1D7EF", "U+1D7F0", "U+1D7F1", "U+1D7F2", "U+1D7F3", "U+1D7F4", "U+1D7F5">>,
     <<"U+1D7F6", "U+1D7F7", "U+1D7F8", "U+1D7F9", "U+1D7FA", "U+1D7FB", "U+1D7FC", "U+1D7FD", "U+1D7FE", "U+1D7FF">>,
     <<"U+1E140", "U+1E141", "U+1E142", "U+1E143", "U+1E144", "U+1E145", "U+1E146", "U+1E147", "U+1E148", "U+1E149">>,
     <<"U+1E2F0", "U+1E2F1", "U+1E2F2", "U+1E2F3", "U+1E2F4", "U+1E2F5", "U+1E2F6", "U+1E2F7", "U+1E2F8", "U+1E2F9">>,
     <<"U+1E950", "U+1E951", "U+1E952", "U+1E953", "U+1E954", "U+1E955", "U+1E956", "U+1E957", "U+1E958", "U+1E959">>,
     <<"U+1FBF0", "U+1FBF1", "U+1FBF2", "U+1FBF3", "U+1FBF4", "U+1FBF5", "U+1FBF6", "U+1FBF7", "U+1FBF8", "U+1FBF9">>
    >>

UnicodeDigitChars ==
    UNION {{UnicodeDigits[r][i] : i \in 1..10} : r \in 1..Len(UnicodeDigits)}

\* The white space beyond ASCII (str.isspace).
UnicodeSpace ==
    {"U+0085", "U+00A0", "U+1680", "U+2000", "U+2001", "U+2002", "U+2003",
     "U+2004", "U+2005", "U+2006", "U+2007", "U+2008", "U+2009", "U+200A",
     "U+2028", "U+2029", "U+202F", "U+205F", "U+3000"}

\* The white space int() and float() skip in an ASCII string.
AsciiSpace == {" ", "\t", "\n", "U+000B", "\f", "\r"}

UnicodeDigitValue(c) ==
    CHOOSE v \in 0..9 : \E r \in 1..Len(UnicodeDigits) : UnicodeDigits[r][v + 1] = c

\* What int() and float() read in place of the character c: a space for
\* white space beyond ASCII, the ASCII digit for a decimal digit beyond
\* ASCII, and c itself otherwise.
ToAscii(c) ==
    IF c \in UnicodeSpace THEN " "
    ELSE IF c \in UnicodeDigitChars THEN DigitChars[UnicodeDigitValue(c) + 1]
    ELSE c

Transformed(s) == [i \in 1..Len(s) |-> ToAscii(s[i])]

\* s without the white space at its two ends.
Strip(s) ==
    LET ink == {i \in 1..Len(s) : s[i] \notin AsciiSpace}
    IN  IF ink = {} THEN <<>> ELSE SubSeq(s, SetMin(ink), SetMax(ink))

IsDigit(c) == c \in {"0", "1", "2", "3", "4", "5", "6", "7", "8", "9"}

DigitOf(c) == (CHOOSE i \in 1..10 : DigitChars[i] = c) - 1

AllDigits(s) == \A i \in 1..Len(s) : IsDigit(s[i])

\* s without the zeros at its head.
StripZeros(s) ==
    LET nz == {i \in 1..Len(s) : s[i] # "0"}
    IN  IF nz = {} THEN <<>> ELSE SubSeq(s, SetMin(nz), Len(s))

RECURSIVE Pow10(_)
Pow10(k) == IF k = 0 THEN 1 ELSE 10 * Pow10(k - 1)

\* The number written by the digits s, as an integer of the model.
RECURSIVE DigitsValFrom(_)
DigitsValFrom(s) ==
    IF Len(s) = 0 THEN 0
    ELSE 10 * DigitsValFrom(SubSeq(s, 1, Len(s) - 1)) + DigitOf(s[Len(s)])

DigitsVal(s) == DigitsValFrom(StripZeros(s))

HasSign(s) == Len(s) > 0 /\ s[1] \in {"-", "+"}

Unsigned(s) == IF HasSign(s) THEN Tail(s) ELSE s

SignOf(s) == IF Len(s) > 0 /\ s[1] = "-" THEN -1 ELSE 1

\* An underscore is read only between two digits.
UnderscoresBetweenDigits(s) ==
    \A i \in 1..Len(s) :
        s[i] = "_" => /\ 1 < i /\ i < Len(s)
                      /\ IsDigit(s[i - 1]) /\ IsDigit(s[i + 1])

NotUnderscore(c) == c # "_"

WithoutUnderscores(s) == SelectSeq(s, NotUnderscore)

\* int(s) of a str, in base 10: white space around, an optional sign, and
\* one or more decimal digits, with single underscores between digits.
\* The value is an integer of the model, for a string of up to 9 digits.
int(s) ==
    LET u == Unsigned(Strip(Transformed(s)))
        digits == WithoutUnderscores(u)
    IN  IF UnderscoresBetweenDigits(u) /\ Len(digits) > 0 /\ AllDigits(digits)
        THEN Return(SignOf(Strip(Transformed(s))) * DigitsVal(digits))
        ELSE Raise("ValueError")

Lower(c) ==
    CASE c = "I" -> "i" [] c = "N" -> "n" [] c = "F" -> "f" [] c = "T" -> "t"
      [] c = "Y" -> "y" [] c = "A" -> "a" [] c = "E" -> "e" [] OTHER -> c

Lowered(s) == [i \in 1..Len(s) |-> Lower(s[i])]

\* a * 10^n
RECURSIVE BigMulPow10(_, _)
BigMulPow10(a, n) ==
    IF a = <<>> \/ n = 0 THEN a
    ELSE IF n <= 4 THEN BigMulSmall(a, Pow10(n))
    ELSE BigMulPow10(BigMulPow10(a, n \div 2), n - (n \div 2))

Dropped(d, sticky) == [q |-> d.q, sticky |-> sticky \/ d.r # 0]

\* floor(a / 10^n), and whether a remainder was dropped, a remainder
\* having been dropped before when sticky.
RECURSIVE BigDivPow10(_, _, _)
BigDivPow10(a, n, sticky) ==
    IF a = <<>> \/ n = 0 THEN [q |-> a, sticky |-> sticky]
    ELSE IF n <= 4 THEN Dropped(BigDivSmall(a, Pow10(n)), sticky)
    ELSE LET first == BigDivPow10(a, n \div 2, sticky)
         IN  BigDivPow10(first.q, n - (n \div 2), first.sticky)

\* The number written by the digits lo..hi of s.
RECURSIVE BigOfDigitsSeg(_, _, _)
BigOfDigitsSeg(s, lo, hi) ==
    IF lo > hi THEN <<>>
    ELSE IF lo = hi THEN BigOfInt(DigitOf(s[lo]))
    ELSE BigAdd(BigMulPow10(BigOfDigitsSeg(s, lo, (lo + hi) \div 2),
                            hi - ((lo + hi) \div 2)),
                BigOfDigitsSeg(s, ((lo + hi) \div 2) + 1, hi))

BigOfDigits(s) == BigOfDigitsSeg(s, 1, Len(s))

\* The exponent digits as a number; one of more than ExpDigits digits is
\* beyond every float and stands as ExpHuge.
ExpDigits == 6

ExpHuge == 1000000

ExpVal(s) == IF Len(StripZeros(s)) > ExpDigits THEN ExpHuge ELSE DigitsVal(s)

\* Decimal digit counts beyond which digits * 10^exp is above every float,
\* or below half the least one.
DecimalOver == 310

DecimalUnder == -330

ParseGuard == 60

\* The float nearest to s * digits * 10^exp.
float_of_decimal(s, digits, exp) ==
    LET d == BigOfDigits(digits)
        nd == Len(StripZeros(digits))
    IN  IF d = <<>> THEN Zero(s)
        ELSE IF nd + exp > DecimalOver THEN Inf(s)
        ELSE IF nd + exp < DecimalUnder THEN Zero(s)
        ELSE IF exp >= 0 THEN Round(s, BigMulPow10(d, exp), 0, FALSE)
        ELSE LET j == 4 * (-exp) + ParseGuard
                 q == BigDivPow10(BigShl(d, j), -exp, FALSE)
             IN  Round(s, q.q, -j, q.sticky)

\* The decimal u, without sign and underscores: digits with at most one
\* point and at least one digit, then an optional exponent, e or E with an
\* optional sign and at least one digit.
float_decimal(s, u) ==
    LET es == {i \in 1..Len(u) : u[i] \in {"e", "E"}}
        ep == IF es = {} THEN Len(u) + 1 ELSE CHOOSE i \in es : \A j \in es : i <= j
        mant == SubSeq(u, 1, ep - 1)
        expo == SubSeq(u, ep + 1, Len(u))
        dots == {i \in 1..Len(mant) : mant[i] = "."}
        p == IF dots = {} THEN Len(mant) + 1 ELSE CHOOSE i \in dots : TRUE
        whole == SubSeq(mant, 1, p - 1)
        frac == SubSeq(mant, p + 1, Len(mant))
        edigits == Unsigned(expo)
    IN  IF /\ Cardinality(dots) <= 1
           /\ AllDigits(whole) /\ AllDigits(frac)
           /\ Len(whole) + Len(frac) > 0
           /\ es # {} => (Len(edigits) > 0 /\ AllDigits(edigits))
        THEN Return(float_of_decimal(s, whole \o frac,
                                     SignOf(expo) * ExpVal(edigits) - Len(frac)))
        ELSE Raise("ValueError")

\* float(s) of a str: white space around, an optional sign, and inf,
\* infinity or nan in any case, or a decimal with single underscores
\* between digits.
float(s) ==
    LET t == Strip(Transformed(s))
        u == Unsigned(t)
        w == Lowered(u)
    IN  IF w \in {<<"i", "n", "f">>, <<"i", "n", "f", "i", "n", "i", "t", "y">>}
        THEN Return(Inf(SignOf(t)))
        ELSE IF w = <<"n", "a", "n">> THEN Return(NaN)
        ELSE IF ~UnderscoresBetweenDigits(t) THEN Raise("ValueError")
        ELSE float_decimal(SignOf(t), WithoutUnderscores(u))

\* t(s) for the two parsers get_range_val is called with.
Apply(t, s) == IF t = "int" THEN int(s) ELSE float(s)

\* s.split(sep): the parts of s between the occurrences of sep.
split(s, sep) ==
    LET at == {i \in 1..Len(s) : s[i] = sep}
        nth(j) == IF j = 0 THEN 0
                  ELSE IF j > Cardinality(at) THEN Len(s) + 1
                  ELSE CHOOSE p \in at : Cardinality({o \in at : o <= p}) = j
    IN  [j \in 1..(Cardinality(at) + 1) |-> SubSeq(s, nth(j - 1) + 1, nth(j) - 1)]
-----------------------------------------------------------------------------
(* get_range_val, lines 59-69 *)

\* Lines 64-66 with t(rng[0]) and t(rng[1]) evaluated: the first that
\* raised ends the try block, else the pair is returned.
range_pair(min_val, max_val) ==
    IF min_val.exc # "none" THEN min_val
    ELSE IF max_val.exc # "none" THEN max_val
    ELSE Return(<<min_val.val, max_val.val>>)

\* Lines 62-66 on the parts rng.
range_of_parts(rng, t) ==
    IF Len(rng) # 2 THEN Raise("InvalidInput")
    ELSE range_pair(Apply(t, rng[1]), Apply(t, rng[2]))

\* The try block, lines 61-66.
get_range_val_try(range_str, t) == range_of_parts(split(range_str, "-"), t)

\* The except clause, lines 67-69, on the outcome of the try block:
\* whatever was raised becomes InvalidInput.
except_Exception(r) == IF r.exc # "none" THEN Raise("InvalidInput") ELSE r

\* A get_range_val without its except clause.
get_range_val_no_except(range_str, t) == get_range_val_try(range_str, t)

\* Lines 59-69.
get_range_val(range_str, t) == except_Exception(get_range_val_try(range_str, t))

-----------------------------------------------------------------------------
(* The module as loaded, lines 29-56, and the class body, lines 83-258 *)

Conf(time, pool, volume, limit) ==
    [fake_api_time_range |-> time, fake_pool_range |-> pool,
     fake_volume_range |-> volume, fake_page_query_limit |-> limit]

\* The defaults registered for the group fake_driver, lines 31-44.
DefaultConf ==
    Conf(<<"0", ".", "1", "-", "0", ".", "5">>, <<"1", "-", "1", "0", "0">>,
         <<"1", "-", "2", "0", "0", "0">>, <<"5", "0", "0">>)

\* The settings a constructor run has read before it read any.
NoConf == Conf(<<>>, <<>>, <<>>, <<>>)

MaxDrivers == 2

DriverIds == 1..MaxDrivers

\* A float literal of the source: the compiler reads it as float() does.
Literal(s) == float(s).val

\* No constructor run was made for a storage id.
NoRun == [pc |-> "none", exc |-> "none", conf |-> NoConf]

\* A constructor run that returned, having read the settings conf.
Returned_init(conf) == [pc |-> "done", exc |-> "none", conf |-> conf]

NoDriver == [storage_id |-> 0, conf |-> NoConf]

\* The arguments of a call beside self and the context.
NoArgs == [storage_id |-> "", interval |-> 0, is_history |-> FALSE]

\* No API call was made.
NoCall ==
    [op |-> "none", self |-> NoDriver, pc |-> "none", secs |-> Zero(1),
     bounds |-> <<0, 0>>, drawn |-> 0, limit |-> 0, loops |-> 0, idx |-> 0,
     start |-> 0, end |-> 0, volume_list |-> <<>>, pages |-> <<>>,
     args |-> NoArgs]

\* Line 50: MIN_WAIT, MAX_WAIT = 0.1, 0.5
Loaded_WAIT == <<Literal(<<"0", ".", "1">>), Literal(<<"0", ".", "5">>)>>

\* Lines 50-54 assign the globals.
GlobalsLoaded ==
    /\ MIN_WAIT = Loaded_WAIT[1] /\ MAX_WAIT = Loaded_WAIT[2]
    /\ MIN_POOL = 1 /\ MAX_POOL = 100
    /\ MIN_VOLUME = 1 /\ MAX_VOLUME = 2000
    /\ PAGE_LIMIT = 500

ModuleLoaded ==
    /\ GlobalsLoaded
    /\ CONF = DefaultConf
    /\ drivers = {}
    /\ constructions = 0
    /\ ctor = [d \in DriverIds |-> NoRun]

\* The module loaded and one driver constructed on the default settings,
\* which assign the globals the values they were loaded with.
DefaultConstructed ==
    /\ GlobalsLoaded
    /\ CONF = DefaultConf
    /\ drivers = {[storage_id |-> 1, conf |-> DefaultConf]}
    /\ constructions = 1
    /\ ctor = [d \in DriverIds |-> IF d = 1 THEN Returned_init(DefaultConf) ELSE NoRun]

-----------------------------------------------------------------------------
(* wait_random, lines 72-80 *)

\* random.randint(a, b): the values it can return; none when a > b, where
\* it raises ValueError.
randint(a, b) == a..b

\* The arguments of wait_random(MIN_WAIT, MAX_WAIT) at lines 109, 132, 207
\* and 243.  The decorators are evaluated once, while the class body runs:
\* low and high are the values line 50 gave MIN_WAIT and MAX_WAIT, and no
\* later assignment of these globals reaches them.
low == Loaded_WAIT[1]

high == Loaded_WAIT[2]

\* Lines 75-76: secs = low + (high - low) * rd / 100 for each rd that
\* random.randint(0, 100) can return.
secs ==
    [rd \in randint(0, 100) |->
        float_add(low, float_truediv(float_mul(float_sub(high, low),
                                               float_of_int(rd)), 100))]

\* The samples drawn for random.randint(0, 100) of line 75.
RdDraws == {0, 1, 50, 100}

\* No API call is in flight.
Idle == call.pc \in {"none", "done"}

\* i.op(ctx, args) is called for an op decorated at line 109, 132 or 243:
\* lines 74-77 of _wait, up to the sleep.
_wait(op, i, args) ==
    /\ Idle
    /\ \E rd \in RdDraws :
          call' = [NoCall EXCEPT !.op = op, !.self = i, !.args = args,
                                 !.pc = "sleep", !.secs = secs[rd]]
    /\ result' = Pending
    /\ UNCHANGED <<globals, CONF, drivers, constructions, ctor>>

-----------------------------------------------------------------------------
(* FakeStorageDriver.__init__, lines 88-98.  A constructor run is a thread  *)
(* of its own.  Each of its four statements reads a setting of CONF, calls  *)
(* get_range_val or int on what it read, and then assigns the globals: the  *)
(* read is a step and the assignment is a step, and between the two the     *)
(* other threads take theirs.                                               *)

\* The statements in their order, and the setting each reads.
Statements == <<"wait", "pool", "volume", "limit">>

Setting(at) ==
    CASE at = "wait" -> "fake_api_time_range"
      [] at = "pool" -> "fake_pool_range"
      [] at = "volume" -> "fake_volume_range"
      [] at = "limit" -> "fake_page_query_limit"

\* Where a run is once the statement at has read its setting and is inside
\* the call on its right-hand side.
Assigning(at) == at \o "_assign"

\* What the assignment of a setting parsed to r leaves in its globals old:
\* nothing is assigned when the right-hand side raised.
assigned(r, old) == IF r.exc = "none" THEN r.val ELSE old

\* A run after a statement whose setting parsed to r: at the statement next,
\* or ended by what r raised.
after(run, r, next) ==
    [run EXCEPT !.pc = IF r.exc = "none" THEN next ELSE "done", !.exc = r.exc]

Running(d) == ctor[d].pc \notin {"none", "done"}

\* The constructor runs a model explores.
MaxConstructions == 2

\* FakeStorageDriver(storage_id=d) is called with CONF.fake_driver set to
\* conf: lines 88-91.
Construct(d, conf) ==
    /\ constructions < MaxConstructions
    /\ ~Running(d)
    /\ constructions' = constructions + 1
    /\ CONF' = conf
    /\ ctor' = [ctor EXCEPT ![d] = [NoRun EXCEPT !.pc = "wait"]]
    /\ UNCHANGED <<globals, drivers, call, result>>

\* The right-hand side of the statement the run for d is at reads its
\* setting from CONF as it is now: CONF.fake_driver.fake_api_time_range at
\* line 93, fake_pool_range at line 95, fake_volume_range at line 97,
\* fake_page_query_limit at line 98.
read_setting(d) ==
    /\ \E k \in 1..Len(Statements) :
          /\ ctor[d].pc = Statements[k]
          /\ ctor' = [ctor EXCEPT ![d] =
                         [@ EXCEPT !.pc = Assigning(Statements[k]),
                                   !.conf = [@ EXCEPT ![Setting(Statements[k])] =
                                                CONF[Setting(Statements[k])]]]]
    /\ UNCHANGED <<globals, CONF, drivers, constructions, call, result>>

\* Lines 92-93: get_range_val on the time range read, and the assignment.
init_wait(d) ==
    /\ ctor[d].pc = Assigning("wait")
    /\ \E r \in {get_range_val(ctor[d].conf.fake_api_time_range, "float")} :
          /\ MIN_WAIT' = assigned(r, <<MIN_WAIT, MAX_WAIT>>)[1]
          /\ MAX_WAIT' = assigned(r, <<MIN_WAIT, MAX_WAIT>>)[2]
          /\ ctor' = [ctor EXCEPT ![d] = after(@, r, "pool")]
    /\ UNCHANGED <<MIN_POOL, MAX_POOL, MIN_VOLUME, MAX_VOLUME, PAGE_LIMIT,
                   CONF, drivers, constructions, call, result>>

\* Lines 94-95: get_range_val on the pool range read, and the assignment.
init_pool(d) ==
    /\ ctor[d].pc = Assigning("pool")
    /\ \E r \in {get_range_val(ctor[d].conf.fake_pool_range, "int")} :
          /\ MIN_POOL' = assigned(r, <<MIN_POOL, MAX_POOL>>)[1]
          /\ MAX_POOL' = assigned(r, <<MIN_POOL, MAX_POOL>>)[2]
          /\ ctor' = [ctor EXCEPT ![d] = after(@, r, "volume")]
    /\ UNCHANGED <<MIN_WAIT, MAX_WAIT, MIN_VOLUME, MAX_VOLUME, PAGE_LIMIT,
                   CONF, drivers, constructions, call, result>>

\* Lines 96-97: get_range_val on the volume range read, and the assignment.
init_volume(d) ==
    /\ ctor[d].pc = Assigning("volume")
    /\ \E r \in {get_range_val(ctor[d].conf.fake_volume_range, "int")} :
          /\ MIN_VOLUME' = assigned(r, <<MIN_VOLUME, MAX_VOLUME>>)[1]
          /\ MAX_VOLUME' = assigned(r, <<MIN_VOLUME, MAX_VOLUME>>)[2]
          /\ ctor' = [ctor EXCEPT ![d] = after(@, r, "limit")]
    /\ UNCHANGED <<MIN_WAIT, MAX_WAIT, MIN_POOL, MAX_POOL, PAGE_LIMIT,
                   CONF, drivers, constructions, call, result>>

\* Line 98: int on the page limit read, the assignment, and the return: the
\* instance exists only when the constructor returns.
init_limit(d) ==
    /\ ctor[d].pc = Assigning("limit")
    /\ \E r \in {int(ctor[d].conf.fake_page_query_limit)} :
          /\ PAGE_LIMIT' = assigned(r, PAGE_LIMIT)
          /\ ctor' = [ctor EXCEPT ![d] = after(@, r, "done")]
          /\ drivers' = IF r.exc = "none"
                        THEN {i \in drivers : i.storage_id # d}
                                 \cup {[storage_id |-> d, conf |-> ctor[d].conf]}
                        ELSE drivers
    /\ UNCHANGED <<MIN_WAIT, MAX_WAIT, MIN_POOL, MAX_POOL, MIN_VOLUME, MAX_VOLUME,
                   CONF, constructions, call, result>>

\* A constructor run takes its next step.
__init__(d) ==
    read_setting(d) \/ init_wait(d) \/ init_pool(d) \/ init_volume(d) \/ init_limit(d)

-----------------------------------------------------------------------------
(* _get_random_capacity, lines 100-104 *)

CAPACITY_MIN == 1000

CAPACITY_MAX == 2000

PERCENT_MAX == 100

\* A capacity sample whose free part is rounded on its own.
get_random_capacity_free_rounded(total, pct) ==
    <<total, int_of_float(int_truediv(pct * total, 100)).val,
      int_of_float(int_truediv((PERCENT_MAX - pct) * total, 100)).val>>

\* Lines 101-104 with randint(1000, 2000) = total and randint(0, 100) = pct:
\* the product is an int, the quotient a float, and int() drops its
\* fraction.
_get_random_capacity(total, pct) ==
    LET used == int_of_float(int_truediv(pct * total, 100)).val
        free == total - used
    IN  <<total, used, free>>

-----------------------------------------------------------------------------
(* The API calls, lines 109-167 and 207-225.  A call is a thread: it takes  *)
(* a step up to each read of the globals and up to each sleep, between      *)
(* which the constructor runs of other threads take theirs.  The calls     *)
(* assign no global, so one call in flight at a time shows what any number  *)
(* of them can return.                                                      *)

Indexed(prefix, i) == prefix \o ToString(i)

\* Lines 209-225: the volumes i .. end-1, cap[j] the capacity sample of
\* volume j.
RECURSIVE volume_range_from(_, _, _, _)
volume_range_from(self, i, end, cap) ==
    IF i >= end THEN <<>>
    ELSE <<[name |-> Indexed("fake_vol_", i),
            storage_id |-> self.storage_id,
            description |-> "Fake Volume",
            status |-> "normal",
            native_volume_id |-> Indexed("fake_original_id_", i),
            wwn |-> Indexed("fake_wwn_", i),
            total_capacity |-> cap[i][1],
            used_capacity |-> cap[i][2],
            free_capacity |-> cap[i][3]]>>
         \o volume_range_from(self, i + 1, end, cap)

\* Line 158 with PAGE_LIMIT read as limit # 0, between -2^15 and 2^15.
list_volumes_loops(rd_volumes_count, limit) ==
    math_ceil(int_truediv(rd_volumes_count, limit))

\* Lines 137-151: the pools idx .. count-1.
RECURSIVE pool_list_from(_, _, _, _)
pool_list_from(self, idx, count, cap) ==
    IF idx >= count THEN <<>>
    ELSE <<[name |-> Indexed("fake_pool_", idx),
            storage_id |-> self.storage_id,
            native_storage_pool_id |-> Indexed("fake_original_id_", idx),
            description |-> "Fake Pool",
            status |-> "normal",
            total_capacity |-> cap[idx][1],
            used_capacity |-> cap[idx][2],
            free_capacity |-> cap[idx][3]]>>
         \o pool_list_from(self, idx + 1, count, cap)

\* The samples drawn for the random module's calls.
CapacityDraws == {<<1999, 33>>}

CapacitySamples == {_get_random_capacity(c[1], c[2]) : c \in CapacityDraws}

RawDraws == {2000, 3000}

SubscribedDraws == {3000, 4000}

UuidDraws == {"7c9e6679-7425-40de-944b-e07fc1f90ae7"}

\* The call in flight ends with the outcome r.
Ends(r) == call' = [call EXCEPT !.pc = "done"] /\ result' = r

\* Lines 111-130, after the sleep.
get_storage ==
    /\ call.op = "get_storage" /\ call.pc = "sleep"
    /\ \E sn \in UuidDraws, c \in CapacitySamples,
          raw \in RawDraws, subscribed \in SubscribedDraws :
          Ends(Return([name |-> "fake_driver",
                       description |-> "fake driver.",
                       vendor |-> "fake_vendor",
                       model |-> "fake_model",
                       status |-> "normal",
                       serial_number |-> sn,
                       firmware_version |-> "1.0.0",
                       location |-> "HK",
                       total_capacity |-> c[1],
                       used_capacity |-> c[2],
                       free_capacity |-> c[3],
                       raw_capacity |-> raw,
                       subscribed_capacity |-> subscribed]))
    /\ UNCHANGED <<globals, CONF, drivers, constructions, ctor>>

\* Bounds of the pool count that are the instance's own: the pool range its
\* constructor read.
pool_bounds_own(self) == get_range_val(self.conf.fake_pool_range, "int").val

\* Line 134: the bounds list_storage_pools draws the pool count between are
\* the globals, whatever the instance.
pool_bounds(self) == <<MIN_POOL, MAX_POOL>>

\* Lines 134-151, after the sleep.
list_storage_pools ==
    /\ call.op = "list_storage_pools" /\ call.pc = "sleep"
    /\ \E b \in {pool_bounds(call.self)} :
          /\ IF b[1] > b[2]
             THEN result' = Raise("ValueError")
             ELSE \E rd_pools_count \in randint(b[1], b[2]) :
                  \E cap \in [0..(rd_pools_count - 1) -> CapacitySamples] :
                     result' = Return(pool_list_from(call.self, 0, rd_pools_count, cap))
          /\ call' = [call EXCEPT !.pc = "done", !.bounds = b]
    /\ UNCHANGED <<globals, CONF, drivers, constructions, ctor>>

\* i.list_volumes(ctx) is called: lines 155-157.
list_volumes(i) ==
    /\ Idle
    /\ IF MIN_VOLUME > MAX_VOLUME
       THEN /\ call' = [NoCall EXCEPT !.op = "list_volumes", !.self = i, !.pc = "done",
                                      !.bounds = <<MIN_VOLUME, MAX_VOLUME>>]
            /\ result' = Raise("ValueError")
       ELSE /\ \E rd_volumes_count \in randint(MIN_VOLUME, MAX_VOLUME) :
                  call' = [NoCall EXCEPT !.op = "list_volumes", !.self = i, !.pc = "loops",
                                         !.bounds = <<MIN_VOLUME, MAX_VOLUME>>,
                                         !.drawn = rd_volumes_count]
            /\ result' = Pending
    /\ UNCHANGED <<globals, CONF, drivers, constructions, ctor>>

\* Lines 158-160: the number of pages, from PAGE_LIMIT as it is now; with
\* no page to make, line 167 returns the empty list.
list_volumes_count_loops ==
    /\ call.op = "list_volumes" /\ call.pc = "loops"
    /\ IF PAGE_LIMIT = 0
       THEN /\ call' = [call EXCEPT !.pc = "done", !.limit = PAGE_LIMIT]
            /\ result' = Raise("ZeroDivisionError")
       ELSE \E loops \in {list_volumes_loops(call.drawn, PAGE_LIMIT)} :
               /\ call' = [call EXCEPT !.pc = IF loops > 0 THEN "page" ELSE "done",
                                       !.limit = PAGE_LIMIT, !.loops = loops, !.idx = 0]
               /\ result' = IF loops > 0 THEN Pending ELSE Return(<<>>)
    /\ UNCHANGED <<globals, CONF, drivers, constructions, ctor>>

\* Lines 161-165 for the page idx: its start and end, from PAGE_LIMIT as it
\* is now; then the call of _get_volume_range, decorated at line 207: lines
\* 74-77 of _wait, up to the sleep.
list_volumes_page ==
    /\ call.op = "list_volumes" /\ call.pc = "page"
    /\ \E rd \in RdDraws :
          call' = [call EXCEPT !.pc = "sleep",
                               !.start = call.idx * PAGE_LIMIT,
                               !.end = IF call.idx = call.loops - 1 THEN call.drawn
                                       ELSE (call.idx + 1) * PAGE_LIMIT,
                               !.secs = secs[rd],
                               !.pages = Append(@, [start |-> call.idx * PAGE_LIMIT,
                                                    end |-> IF call.idx = call.loops - 1
                                                            THEN call.drawn
                                                            ELSE (call.idx + 1) * PAGE_LIMIT,
                                                    limit |-> PAGE_LIMIT])]
    /\ UNCHANGED <<globals, CONF, drivers, constructions, ctor, result>>

\* Lines 208-225 after the sleep, then line 166 and the next turn of the
\* loop of line 160, or line 167 after the last.
_get_volume_range ==
    /\ call.op = "list_volumes" /\ call.pc = "sleep"
    /\ \E cap \in [call.start..(call.end - 1) -> CapacitySamples] :
       \E vs \in {volume_range_from(call.self, call.start, call.end, cap)} :
          /\ call' = [call EXCEPT !.pc = IF call.idx + 1 < call.loops THEN "page" ELSE "done",
                                  !.idx = call.idx + 1,
                                  !.volume_list = @ \o vs]
          /\ result' = IF call.idx + 1 < call.loops THEN Pending
                       ELSE Return(call.volume_list \o vs)
    /\ UNCHANGED <<globals, CONF, drivers, constructions, ctor>>

-----------------------------------------------------------------------------
(* The driver: constructions under changing settings, and calls *)

\* Settings the constructor accepts and the listings serve.
ConfTwoPools ==
    Conf(<<"0", ".", "1", "-", "0", ".", "5">>, <<"2", "-", "2">>,
         <<"0", "-", "0">>, <<"1">>)

ConfPaged ==
    Conf(<<"1", "-", "2", ".", "5">>, <<"1", "-", "3">>,
         <<"0", "-", "4">>, <<" ", "2">>)

ConfOnePerPage ==
    Conf(<<"0", "-", ".", "2", "5", "e", "0">>, <<"0", "-", "1">>,
         <<"2", "-", "0", "_", "2">>, <<"U+0661">>)

\* Settings the constructor accepts and a listing fails on.
ConfMinOverMax ==
    Conf(<<"1", "-", "2", ".", "5">>, <<"3", "-", "1">>,
         <<"4", "-", "1">>, <<"2">>)

ConfZeroLimit ==
    Conf(<<"1", "-", "2", ".", "5">>, <<"1", "-", "3">>,
         <<"0", "-", "4">>, <<"0">>)

ConfNegativeLimit ==
    Conf(<<"1", "-", "2", ".", "5">>, <<"1", "-", "3">>,
         <<"0", "-", "4">>, <<"-", "2">>)

\* Settings the constructor rejects, at each of its four assignments.
ConfBadTime ==
    Conf(<<"0", ".", "1">>, <<"4", "-", "4">>, <<"1", "-", "1">>, <<"1">>)

ConfBadPool ==
    Conf(<<"0", "-", "0">>, <<"1", "-", "2", "-", "3">>, <<"1", "-", "1">>, <<"1">>)

ConfBadVolume ==
    Conf(<<"0", "-", "0">>, <<"4", "-", "4">>, <<"1", "-", "x">>, <<"1">>)

ConfBadLimit ==
    Conf(<<"0", "-", "0">>, <<"4", "-", "4">>, <<"1", "-", "1">>, <<"x">>)

Configs ==
    {ConfTwoPools, ConfPaged, ConfOnePerPage, ConfMinOverMax, ConfZeroLimit,
     ConfNegativeLimit, ConfBadTime, ConfBadPool, ConfBadVolume, ConfBadLimit}

Init ==
    /\ ModuleLoaded
    /\ call = NoCall
    /\ result = Pending

Next ==
    \/ \E d \in DriverIds, conf \in Configs : Construct(d, conf)
    \/ \E d \in DriverIds : __init__(d)
    \/ \E i \in drivers : _wait("get_storage", i, NoArgs)
    \/ \E i \in drivers : _wait("list_storage_pools", i, NoArgs)
    \/ \E i \in drivers : list_volumes(i)
    \/ get_storage
    \/ list_storage_pools
    \/ list_volumes_count_loops
    \/ list_volumes_page
    \/ _get_volume_range

Spec == Init /\ [][Next]_vars

\* A call of op was made and has ended.
Called(op) == call.op = op /\ call.pc = "done"

Returned(op) == Called(op) /\ result.exc = "none"

\* The least k with k * p >= n, for n >= 0 and p >= 1.
CeilOf(n, p) == CHOOSE k \in 0..n : k * p >= n /\ (k = 0 \/ (k - 1) * p < n)

\* The records of the pages, in the order of the pages.
PageLen(page) == Max(page.end - page.start, 0)

PageLens(pages, n, p) ==
    /\ \A j \in 1..(Len(pages) - 1) : PageLen(pages[j]) = p
    /\ Len(pages) > 0 => PageLen(pages[Len(pages)]) = n - (Len(pages) - 1) * p

\* Every value of PAGE_LIMIT the call has read, at line 158 and for each
\* page at lines 161-162, was 1 or more.
LimitsPositive ==
    call.limit >= 1 /\ \A j \in 1..Len(call.pages) : call.pages[j].limit >= 1

\* C1: for a drawn count n >= 0 and a page limit p >= 1, list_volumes
\* returns exactly n records from exactly ceil(n/p) calls of
\* _get_volume_range; every page but the last has p records and the last
\* has the remainder; for n = 0 no page is generated and the result is
\* empty.
C1_PagesAndCount ==
    (Returned("list_volumes") /\ call.drawn >= 0 /\ LimitsPositive) =>
        /\ Len(result.val) = call.drawn
        /\ Len(call.pages) = CeilOf(call.drawn, call.limit)
        /\ PageLens(call.pages, call.drawn, call.limit)
        /\ call.drawn = 0 => (call.pages = <<>> /\ result.val = <<>>)

\* The low and high the receiver's constructor read from its settings.
ConfiguredWait == get_range_val(call.self.conf.fake_api_time_range, "float").val

IsConfiguredSleep(s, w) ==
    \E k \in 0..100 :
        s = float_add(w[1], float_truediv(float_mul(float_sub(w[2], w[1]),
                                                    float_of_int(k)), 100))

\* C2: every latency-wrapped call on a driver constructed with the latency
\* range "low-high" sleeps low + (high - low) * k / 100 for an integer k in
\* 0..100, low and high being the configured values.
C2_ConfiguredLatency ==
    call.pc = "sleep" => IsConfiguredSleep(call.secs, ConfiguredWait)

\* C4: once a driver is constructed, list_storage_pools and list_volumes
\* return a result and raise nothing.
C4_ListingsNeverRaise ==
    (Called("list_storage_pools") \/ Called("list_volumes")) =>
        result.exc = "none"

\* C5: the constructor either succeeds or raises InvalidInput.
C5_ConstructorOutcomes ==
    \A d \in DriverIds :
        ctor[d].pc = "done" => ctor[d].exc \in {"none", "InvalidInput"}

PoolNames(val) ==
    \A k \in 1..Len(val) :
        /\ val[k].name = "fake_pool_" \o ToString(k - 1)
        /\ val[k].native_storage_pool_id = "fake_original_id_" \o ToString(k - 1)

PoolsWithin(r, val) == r[1] <= Len(val) /\ Len(val) <= r[2] /\ PoolNames(val)

\* The pool range the receiver's constructor read from its settings.
ConstructedPools == get_range_val(call.self.conf.fake_pool_range, "int").val

\* C8: on a driver constructed with the pool range "lo-hi", lo <= hi,
\* list_storage_pools returns between lo and hi records named fake_pool_0,
\* fake_pool_1, ... in order; constructed with "2-2", "0-0" and the page
\* limit 1 it lists exactly 2 pools and exactly 0 volumes.
C8_PoolsWithinOwnRange ==
    /\ (Called("list_storage_pools") /\ ConstructedPools[1] <= ConstructedPools[2]) =>
          (result.exc = "none" /\ PoolsWithin(ConstructedPools, result.val))
    /\ (Called("list_storage_pools") /\ call.self.conf = ConfTwoPools) =>
          (result.exc = "none" /\ Len(result.val) = 2)
    /\ (Called("list_volumes") /\ call.self.conf = ConfTwoPools) =>
          (result.exc = "none" /\ Len(result.val) = 0)

\* The steps in which a listing call reads the globals: line 134, line 155,
\* line 158, and lines 161-162 for each page.
ReadsPools == call.op = "list_storage_pools" /\ call.pc = "sleep" /\ call'.pc = "done"

ReadsVolumes ==
    /\ Idle /\ call' # call
    /\ call'.op = "list_volumes" /\ call'.pc \in {"loops", "done"}

ReadsLimit == call.pc = "loops" /\ call'.pc \in {"page", "done"}

ReadsPage == call.pc = "page" /\ call'.pc = "sleep"

\* No constructor run is in flight.
Quiet == \A d \in DriverIds : ~Running(d)

\* The globals hold what the settings of the constructor run made last
\* parse to.
GlobalsOfLastRun ==
    /\ get_range_val(CONF.fake_pool_range, "int") = Return(<<MIN_POOL, MAX_POOL>>)
    /\ get_range_val(CONF.fake_volume_range, "int") = Return(<<MIN_VOLUME, MAX_VOLUME>>)
    /\ int(CONF.fake_page_query_limit) = Return(PAGE_LIMIT)

\* C9 as stated: after any constructor runs, a listing call on any instance
\* reads the bounds and the page limit that the constructor run made last
\* wrote, that is, those of the settings it ran on.
C9_LastConstructorBounds ==
    [][(Quiet /\ (ReadsPools \/ ReadsVolumes \/ ReadsLimit \/ ReadsPage))
          => GlobalsOfLastRun]_vars

\* The globals a statement assigns.
Assigns(at) ==
    CASE at = "wait" -> <<MIN_WAIT, MAX_WAIT>>
      [] at = "pool" -> <<MIN_POOL, MAX_POOL>>
      [] at = "volume" -> <<MIN_VOLUME, MAX_VOLUME>>
      [] at = "limit" -> <<PAGE_LIMIT>>

\* What the right-hand side of the statement evaluates to on the settings
\* conf.
Parsed(at, conf) ==
    CASE at = "wait" -> get_range_val(conf.fake_api_time_range, "float")
      [] at = "pool" -> get_range_val(conf.fake_pool_range, "int")
      [] at = "volume" -> get_range_val(conf.fake_volume_range, "int")
      [] at = "limit" -> IF int(conf.fake_page_query_limit).exc = "none"
                         THEN Return(<<int(conf.fake_page_query_limit).val>>)
                         ELSE int(conf.fake_page_query_limit)

Following(at) ==
    CASE at = "wait" -> "pool" [] at = "pool" -> "volume"
      [] at = "volume" -> "limit" [] at = "limit" -> "done"

\* The run for d completes the statement at with its right-hand side
\* evaluated to r: its globals get r and the run goes on, or r is an error,
\* nothing is assigned and the run ends; the globals of the other
\* statements stay as they are.
ConstructorWrote(d, at, r) ==
    /\ Assigns(at)' = IF r.exc = "none" THEN r.val ELSE Assigns(at)
    /\ \A k \in 1..Len(Statements) :
          Statements[k] # at => Assigns(Statements[k])' = Assigns(Statements[k])
    /\ ctor'[d].pc = IF r.exc = "none" THEN Following(at) ELSE "done"
    /\ ctor'[d].exc = r.exc
    /\ (at = "limit" /\ r.exc = "none") => \E i \in drivers' : i.storage_id = d

\* Every step of a constructor run: a statement reads its setting from CONF
\* as it is at the read and assigns no global; the assignment that follows
\* writes what the setting read then parses to, whatever CONF has become.
ConstructorStep ==
    \A d \in DriverIds :
        ctor'[d] # ctor[d] =>
            \/ /\ ~Running(d)
               /\ ctor'[d].pc = "wait"
               /\ globals' = globals
            \/ \E k \in 1..Len(Statements) :
                  /\ ctor[d].pc = Statements[k]
                  /\ ctor'[d].pc = Assigning(Statements[k])
                  /\ ctor'[d].conf[Setting(Statements[k])] = CONF[Setting(Statements[k])]
                  /\ globals' = globals
            \/ \E k \in 1..Len(Statements) :
                  /\ ctor[d].pc = Assigning(Statements[k])
                  /\ ConstructorWrote(d, Statements[k], Parsed(Statements[k], ctor[d].conf))

\* The globals change in the steps of the constructor runs only.
OnlyConstructorsWrite == globals' # globals => ctor' # ctor

\* k = ceil(n / p) for p # 0.
IsCeil(k, n, p) ==
    IF p > 0 THEN k * p >= n /\ (k - 1) * p < n
    ELSE k * p <= n /\ (k - 1) * p > n

\* A listing call is served from the globals as they are when it reads
\* them, whatever the settings its instance was constructed on.
ServedFromGlobals ==
    /\ ReadsPools =>
          IF MIN_POOL > MAX_POOL THEN result'.exc = "ValueError"
          ELSE result'.exc = "none" /\ PoolsWithin(<<MIN_POOL, MAX_POOL>>, result'.val)
    /\ ReadsVolumes =>
          IF MIN_VOLUME > MAX_VOLUME THEN result'.exc = "ValueError"
          ELSE /\ call'.pc = "loops"
               /\ MIN_VOLUME <= call'.drawn /\ call'.drawn <= MAX_VOLUME
    /\ ReadsLimit =>
          IF PAGE_LIMIT = 0 THEN result'.exc = "ZeroDivisionError"
          ELSE IsCeil(call'.loops, call.drawn, PAGE_LIMIT)
    /\ ReadsPage =>
          /\ call'.start = call.idx * PAGE_LIMIT
          /\ call'.end = IF call.idx = call.loops - 1 THEN call.drawn
                         ELSE (call.idx + 1) * PAGE_LIMIT

\* C9 as amended: the bounds and the page limit are globals shared by all
\* instances.  A constructor run assigns them statement by statement, in
\* the order latency, pool range, volume range, page limit, each from the
\* setting the statement read before it parsed it, and stops at the first
\* setting that does not parse, so each global holds what the last
\* assignment that reached it wrote; a listing call on any instance uses
\* the values the globals hold when it reads them: the pool bounds after
\* its sleep, the volume bounds when it is entered, the page limit when it
\* counts the pages and again for each page.
C9_SharedBounds ==
    [][ConstructorStep /\ OnlyConstructorsWrite /\ ServedFromGlobals]_vars

\* A second driver was constructed on other settings, and the first driver,
\* constructed for exactly two pools, then listed three.
C9_Witness ==
    /\ Returned("list_storage_pools")
    /\ call.self = [storage_id |-> 1, conf |-> ConfTwoPools]
    /\ CONF = ConfPaged
    /\ [storage_id |-> 2, conf |-> ConfPaged] \in drivers
    /\ Quiet
    /\ Len(result.val) = 3

VolumeNames(val) ==
    \A k \in 0..(Len(val) - 1) :
        /\ val[k + 1].name = "fake_vol_" \o ToString(k)
        /\ val[k + 1].wwn = "fake_wwn_" \o ToString(k)
        /\ val[k + 1].native_volume_id = "fake_original_id_" \o ToString(k)

PageBounds(pages, n, p) ==
    \A j \in 1..Len(pages) :
        /\ pages[j].start = (j - 1) * p
        /\ pages[j].end = Min(j * p, n)

\* C10: for a drawn count n and a page limit p >= 1, list_volumes returns
\* the volumes 0, 1, ..., n-1 in this order, each once: page k comes from
\* _get_volume_range over [k*p, min((k+1)*p, n)), the pages are joined in
\* page order, and record k is named fake_vol_k, with the wwn fake_wwn_k
\* and the native id fake_original_id_k.
C10_VolumesInOrder ==
    (Returned("list_volumes") /\ LimitsPositive) =>
        /\ VolumeNames(result.val)
        /\ PageBounds(call.pages, call.drawn, call.limit)

-----------------------------------------------------------------------------
(* The range parser on its own: every short string, both parsers *)

MaxStrLen == 5

Alphabet == {"0", "1", "-", ".", " ", "_", "e", "U+0663"}

\* Longer strings, for what the alphabet does not spell.
Spelled ==
    {<<"i", "n", "f", "-", "N", "a", "N">>,
     <<"1", "e", "3", "-", "I", "n", "f", "i", "n", "i", "t", "y">>,
     <<"\t", "1", "_", "0", "-", "7", "\n">>,
     <<"1", "x", "-", "2">>,
     <<"0", "x", "1", "0", "-", "2">>,
     <<"1", "U+00A0", "-", "U+FF12", "U+000B">>,
     <<"1", "-", "2", "U+001C">>,
     <<"1", ".", "5", "e", "3", "0", "0", "-", "1", "e", "3", "0", "9">>,
     <<"4", ".", "9", "e", "-", "3", "2", "4">>,
     <<"2", "0", "0", "0", "-", "1", "0", "0", "0">>}

Strings == UNION {[1..n -> Alphabet] : n \in 0..MaxStrLen} \cup Spelled

InitParse ==
    /\ ModuleLoaded
    /\ call \in {[op |-> "get_range_val", range_str |-> s, t |-> t] :
                    s \in Strings, t \in {"int", "float"}}
    /\ result = Pending

ParseStep ==
    /\ call.op = "get_range_val"
    /\ result = Pending
    /\ result' = get_range_val(call.range_str, call.t)
    /\ UNCHANGED <<globals, CONF, drivers, constructions, ctor, call>>

NextParse == ParseStep

SpecParse == InitParse /\ [][NextParse]_vars

\* The positions of the separator in the call's string.
Seps == {i \in 1..Len(call.range_str) : call.range_str[i] = "-"}

SepAt == CHOOSE i \in Seps : TRUE

PartA == SubSeq(call.range_str, 1, SepAt - 1)

PartB == SubSeq(call.range_str, SepAt + 1, Len(call.range_str))

WellFormed ==
    /\ Cardinality(Seps) = 1
    /\ Apply(call.t, PartA).exc = "none"
    /\ Apply(call.t, PartB).exc = "none"

ParseDone == call.op = "get_range_val" /\ result # Pending

\* C3: get_range_val(s, t) returns (t(a), t(b)) when s has exactly one '-'
\* and both sides parse under t; for every other string it raises
\* InvalidInput, and it raises no other kind of error.
C3_RangeParser ==
    ParseDone =>
        /\ result.exc \in {"none", "InvalidInput"}
        /\ WellFormed =>
              /\ result.exc = "none"
              /\ result.val = <<Apply(call.t, PartA).val, Apply(call.t, PartB).val>>
        /\ ~WellFormed => result.exc = "InvalidInput"

\* A float range was parsed to 0.1, the double 3602879701896397 / 2^55, and
\* 3.0, written with a digit beyond ASCII.
C3_Witness ==
    /\ ParseDone
    /\ call.t = "float"
    /\ call.range_str = <<".", "1", "-", "U+0663">>
    /\ result = Return(<<Finite(1, <<19661, 6553, 13107, 102>>, -55),
                         Finite(1, <<3>>, 0)>>)

-----------------------------------------------------------------------------
(* The capacity sampler on its own: every total, every percentage *)

InitCapacity ==
    /\ DefaultConstructed
    /\ call \in {[op |-> "_get_random_capacity", self |-> 1, pc |-> "done",
                  total |-> t, pct |-> p] :
                    t \in CAPACITY_MIN..CAPACITY_MAX, p \in 0..PERCENT_MAX}
    /\ result = Pending

CapacityStep ==
    /\ call.op = "_get_random_capacity"
    /\ result = Pending
    /\ result' = Return(_get_random_capacity(call.total, call.pct))
    /\ UNCHANGED <<globals, CONF, drivers, constructions, ctor, call>>

NextCapacity == CapacityStep

SpecCapacity == InitCapacity /\ [][NextCapacity]_vars

\* C6: every (total, used, free) of _get_random_capacity has
\* used + free = total, 0 <= used <= total and 1000 <= total <= 2000, and
\* used is the percentage of the total rounded down.
C6_CapacityTriple ==
    Returned("_get_random_capacity") =>
        LET total == result.val[1]
            used == result.val[2]
            free == result.val[3]
        IN  /\ total = call.total
            /\ used + free = total
            /\ 0 <= used /\ used <= total
            /\ 1000 <= total /\ total <= 2000
            /\ used * 100 <= call.pct * total
            /\ call.pct * total < (used + 1) * 100

\* 33 percent of 1999 was sampled: 659.67 rounded down.
C6_Witness ==
    /\ Returned("_get_random_capacity")
    /\ call.total = 1999 /\ call.pct = 33
    /\ result.val = <<1999, 659, 1340>>

-----------------------------------------------------------------------------
(* The metrics collection, lines 227-258 *)

MIN_STORAGE == 1

MAX_STORAGE == 10

MIN_PERF_VALUES == 1

MAX_PERF_VALUES == 4

\* constants.DELFIN_ARRAY_METRICS: the fixed list of array metric names.
DELFIN_ARRAY_METRICS == <<"response_time", "throughput">>

MetricNames == {DELFIN_ARRAY_METRICS[k] : k \in 1..Len(DELFIN_ARRAY_METRICS)}

\* A loop over range(MAX_PERF_VALUES, MIN_PERF_VALUES).
perf_range_swapped == MAX_PERF_VALUES..(MIN_PERF_VALUES - 1)

\* Line 230: range(MIN_PERF_VALUES, MAX_PERF_VALUES).
perf_range == MIN_PERF_VALUES..(MAX_PERF_VALUES - 1)

\* Lines 228-234: now[i] the timestamp read and value[i] the sample drawn
\* in iteration i; a later write to a timestamp replaces an earlier one.
get_random_timestamp_value(now, value) ==
    [ts \in {now[i] : i \in perf_range} |->
        value[CHOOSE i \in perf_range :
                 now[i] = ts /\ \A j \in perf_range : now[j] = ts => j <= i]]

\* Lines 238-241.
_get_random_performance(now, value) ==
    [key \in MetricNames |-> get_random_timestamp_value(now[key], value[key])]

\* constants.metric_struct
metric_struct(name, labels, values) ==
    [name |-> name, labels |-> labels, values |-> values]

\* Lines 248-258: rd_array_count rounds of one record per metric name.
array_metrics(storage_id, rd_array_count, fake_metrics) ==
    [n \in 1..(rd_array_count * Len(DELFIN_ARRAY_METRICS)) |->
        metric_struct(DELFIN_ARRAY_METRICS[((n - 1) % Len(DELFIN_ARRAY_METRICS)) + 1],
                      [storage_id |-> storage_id, resource_type |-> "array"],
                      fake_metrics[DELFIN_ARRAY_METRICS[
                          ((n - 1) % Len(DELFIN_ARRAY_METRICS)) + 1]])]

\* The timestamps the clock is sampled at, in milliseconds.
MaxTimestamp == 3

Timestamps == 1..MaxTimestamp

UniformDraws == {50}

\* The arguments collect_array_metrics is called with.
MetricsArgs == [storage_id |-> "storage-1", interval |-> 60, is_history |-> FALSE]

InitMetrics ==
    /\ DefaultConstructed
    /\ call = NoCall
    /\ result = Pending

\* Lines 245-258, after the sleep.
collect_array_metrics ==
    /\ call.op = "collect_array_metrics" /\ call.pc = "sleep"
    /\ \E rd_array_count \in randint(MIN_STORAGE, MAX_STORAGE),
          now \in [MetricNames -> [perf_range -> Timestamps]],
          u \in [MetricNames -> [perf_range -> UniformDraws]] :
          /\ call' = [call EXCEPT !.pc = "done", !.drawn = rd_array_count]
          /\ result' = Return(array_metrics(call.args.storage_id, rd_array_count,
                                            _get_random_performance(now, u)))
    /\ UNCHANGED <<globals, CONF, drivers, constructions, ctor>>

NextMetrics ==
    \/ \E i \in drivers : _wait("collect_array_metrics", i, MetricsArgs)
    \/ collect_array_metrics

SpecMetrics == InitMetrics /\ [][NextMetrics]_vars

Points(m) == Cardinality(DOMAIN m.values)

\* C7: every record collect_array_metrics returns is named by a member of
\* the array metric names, and its time series has between MIN_PERF_VALUES
\* and MAX_PERF_VALUES points, whatever the clock returned.
C7_MetricRecords ==
    Returned("collect_array_metrics") =>
        /\ Len(result.val) = call.drawn * Len(DELFIN_ARRAY_METRICS)
        /\ \A n \in 1..Len(result.val) :
              /\ result.val[n].name \in MetricNames
              /\ MIN_PERF_VALUES <= Points(result.val[n])
              /\ Points(result.val[n]) <= MAX_PERF_VALUES

\* One series kept a single point of a clock that stood still, another
\* three points of a clock that moved.
C7_Witness ==
    /\ Returned("collect_array_metrics")
    /\ \E n \in 1..Len(result.val) : Points(result.val[n]) = 1
    /\ \E n \in 1..Len(result.val) : Points(result.val[n]) = 3

====
